---- MODULE Spec2Model ----
(***************************************************************************)
(* The process-link bridge of thunder_rs: host/src/main.rs (frame codec,   *)
(* dispatch loop, relay consumer thread) and sdk/src/lib.rs (RequestContext *)
(* and its send capability, and the extern fns wpe_rust_plugin_create,     *)
(* _destroy, _invoke, _on_client_connect and _on_client_disconnect.        *)
(*                                                                         *)
(* Threads: the dispatcher (main thread: read_request and the plugin       *)
(* callbacks it calls), the relay consumer (the spawned writer thread), a  *)
(* plugin worker that holds RequestContext clones, and the host at the far *)
(* end of the TcpStream. In the native-module variant: the host's threads  *)
(* calling the C surface, and the consumer thread of the plugin instance.  *)
(***************************************************************************)
EXTENDS Integers, Sequences, FiniteSets, TLC

\* ------------------------------------------------------------------ bounds
MaxFrames   == 2    \* frames the host writes on the connection
MaxSends    == 1    \* RequestContext::send calls over the run
MaxShort    == 1    \* reads or writes that transfer fewer bytes than asked for
RelayFrames == 1    \* frames, in the runs that exercise the relay
RelaySends  == 3    \* send calls, in the runs that exercise the relay
FairFrames  == 1    \* frames, in the runs checked under fairness
ConnFrames  == 1    \* frames, in the runs that begin at connect_stream
ConnSends   == 1    \* send calls, in the runs that begin at connect_stream
AdapterCalls == 3   \* calls the host makes on the C surface after create
AdapterSends == 2   \* send calls, in the runs of the native-module variant

\* ------------------------------------------------------- program constants
ID_INVOKE == 1
ID_ATTACH == 2
ID_EXIT   == 3
RETRIES      == 20    \* connect_stream: let mut retries: u32 = 20
RETRY_MILLIS == 100   \* connect_stream: Duration::from_millis(100)

\* --------------------------------------------------------------- the inputs
Channels   == {7}
Tokens     == {<<>>, <<116>>}
Payloads   == {<<>>, <<112>>}
AttachByte == {0, 1}
UnknownIds == {4}
Responses  == {<<114>>}
Cuts       == {4, 8, 12}
HostThreads      == {1, 2}             \* threads of the native host
PluginCtxs       == {42}               \* plugin_ctx values given to create
AdapterPayloads  == {<<112>>, <<200>>} \* json_req: valid UTF-8, and not
AdapterTokens    == {<<116>>}          \* auth_token
AdapterResponses == {<<114>>, <<0>>}   \* sends: plain, and holding a NUL byte

\* ------------------------------------------------------------ byte helpers
Min(a, b) == IF a < b THEN a ELSE b

\* NetworkEndian::write_u32
WriteU32(v) ==
  << (v \div 16777216) % 256, (v \div 65536) % 256, (v \div 256) % 256, v % 256 >>

\* NetworkEndian::read_u32
ReadU32(b) == b[1] * 16777216 + b[2] * 65536 + b[3] * 256 + b[4]

\* let mut buf = [0; 4]
ZeroBuf == <<0, 0, 0, 0>>

\* What a read of n bytes leaves in a buffer: the first n bytes are replaced,
\* the others keep what they held.
Overlay(b, bytes) ==
  [i \in 1..Len(b) |-> IF i <= Len(bytes) THEN bytes[i] ELSE b[i]]

Take(s, n) == SubSeq(s, 1, n)
Drop(s, n) == SubSeq(s, n + 1, Len(s))

\* String::from_utf8 on the model's bytes: the bytes below 128 are ASCII, and
\* a byte of 128 or more never starts a valid sequence here because the model
\* writes no continuation bytes.
FromUtf8Ok(bytes) == \A i \in 1..Len(bytes) : bytes[i] < 128

\* ------------------------------------------------------------------ frames
Frame(k, c, t, j, a, id) ==
  [kind |-> k, channel |-> c, token |-> t, json |-> j, attach |-> a, id |-> id]

InvokeFrames == { Frame("Invoke", c, t, j, 0, ID_INVOKE) :
                    c \in Channels, t \in Tokens, j \in Payloads }
AttachFrames == { Frame("Attach", c, <<>>, <<>>, a, ID_ATTACH) :
                    c \in Channels, a \in AttachByte }
ExitFrames   == { Frame("Exit", 0, <<>>, <<>>, 0, ID_EXIT) }
BadFrames    == { Frame("Bad", 0, <<>>, <<>>, 0, id) : id \in UnknownIds }
Frames       == InvokeFrames \cup AttachFrames \cup ExitFrames \cup BadFrames

\* The bytes of a request frame, in the layout read_request decodes.
EncodeRequest(f) ==
  IF f.kind = "Invoke"
    THEN WriteU32(ID_INVOKE) \o WriteU32(f.channel) \o WriteU32(Len(f.token))
           \o WriteU32(Len(f.json)) \o f.token \o f.json
  ELSE IF f.kind = "Attach"
    THEN WriteU32(ID_ATTACH) \o WriteU32(f.channel) \o <<f.attach>>
  ELSE WriteU32(f.id)

\* ---------------------------------------------------------------- requests
Request(k, c, t, j, a, id) ==
  [kind |-> k, channel |-> c, token |-> t, json |-> j, attach |-> a, id |-> id]
NoRequest == Request("None", 0, <<>>, <<>>, FALSE, 0)

VARIABLES
  frames,      \* history: the frames the host wrote, each with the bytes it sent
  inbuf,       \* bytes the host wrote that the dispatcher has not read
  hostClosed,  \* the host closed its end of the stream
  mpc,         \* where the main (dispatcher) thread is
  buf,         \* read_request's 4-byte buffer
  channel,     \* read_request's local channel
  token_len,   \* read_request's local token_len
  json_len,    \* read_request's local json_len
  token,       \* read_request's local token
  req,         \* the Request read_request returned
  reqStart,    \* history: stream offset at which the current read_request began
  consumed,    \* history: bytes read from the stream so far
  running,     \* main's running flag
  exited,      \* history: main has processed an Exit request
  cause,       \* what made the main thread panic
  ctx,         \* the RequestContext of the running on_message (<<>> when none)
  held,        \* RequestContext clones the plugin kept for its worker
  calls,       \* history: the plugin callbacks the dispatcher made
  executing,   \* the plugin callbacks the dispatcher is inside of
  callAt,      \* history: the stream offset each callback's request began at
  sent,        \* history: the RequestContext::send calls, in call order
  queue,       \* the mpsc channel of Messages
  wpc,         \* where the relay consumer thread is
  wmsg,        \* the Message the relay consumer took (<<>> when none)
  written,     \* history: the response frames send_response put on the wire
  wire,        \* history: the bytes the stream accepted from send_response
  retries,     \* connect_stream's local retries
  slept,       \* history: milliseconds connect_stream slept
  listening,   \* the host accepts connections on the address
  handle,      \* the *mut CPlugin: "none", "live" or "destroyed"
  plugin_ctx,  \* the plugin_ctx the consumer thread captured at create
  hpc,         \* what each host thread is inside of ("idle" when outside)
  boundary,    \* "ok" until a panic leaves an extern fn
  cpc,         \* where the instance's consumer thread is
  delivered,   \* history: the send_func calls the consumer thread made
  callsLeft,   \* calls on the C surface the host may still make
  framesLeft,  \* frames the host may still write in this run
  sendsLeft,   \* send calls the plugin may still make in this run
  shortLeft    \* short reads the stream may still deliver in this run

vars == << frames, inbuf, hostClosed, mpc, buf, channel, token_len, json_len, token,
           req, reqStart, consumed, running, exited, cause, ctx, held, calls, executing,
           callAt, sent, queue, wpc, wmsg, written, wire, retries, slept, listening, handle,
           plugin_ctx, hpc, boundary, cpc, delivered, callsLeft,
           framesLeft, sendsLeft, shortLeft >>

hostVars   == << frames, hostClosed, framesLeft >>
streamVars == << inbuf, consumed, shortLeft >>
readLocals == << buf, channel, token_len, json_len, token >>
mainVars   == << mpc, running, exited, cause >>
pluginVars == << ctx, held, calls, executing, callAt >>
sendVars   == << sent, sendsLeft >>
relayVars  == << queue, wpc, wmsg, written, wire >>
startupVars == << retries, slept, listening >>
adapterVars == << handle, plugin_ctx, hpc, boundary, cpc, delivered, callsLeft >>

\* The bridge process is alive until main returns or the main thread panics.
Alive == mpc \notin {"done", "panicked"}

\* The native-module surface before wpe_rust_plugin_create: no handle, no
\* consumer thread, every host thread outside the library.
NoAdapter(nc) ==
  /\ handle = "none"
  /\ plugin_ctx = 0
  /\ hpc = [t \in HostThreads |-> "idle"]
  /\ boundary = "ok"
  /\ cpc = "none"
  /\ delivered = <<>>
  /\ callsLeft = nc

\* The process-link bridge with main at pc, connect_stream's retries at r, the
\* host listening or not, and the relay consumer thread at w. nf, ns and
\* nshort are the run's budgets.
Begin(pc, r, l, w, nf, ns, nshort) ==
  /\ retries = r
  /\ slept = 0
  /\ listening = l
  /\ mpc = pc
  /\ wpc = w
  /\ executing = 0
  /\ callAt = <<>>
  /\ wire = <<>>
  /\ framesLeft = nf
  /\ sendsLeft = ns
  /\ shortLeft = nshort
  /\ frames = <<>>
  /\ inbuf = <<>>
  /\ hostClosed = FALSE
  /\ buf = ZeroBuf
  /\ channel = 0
  /\ token_len = 0
  /\ json_len = 0
  /\ token = <<>>
  /\ req = NoRequest
  /\ reqStart = 0
  /\ consumed = 0
  /\ running = TRUE
  /\ exited = FALSE
  /\ cause = "none"
  /\ ctx = <<>>
  /\ held = {}
  /\ calls = <<>>
  /\ sent = <<>>
  /\ queue = <<>>
  /\ wmsg = <<>>
  /\ written = <<>>

\* The state when main enters its loop: connected, plugin loaded, relay
\* consumer spawned.
Start(nf, ns, nshort) ==
  Begin("command_id", 0, TRUE, "recv", nf, ns, nshort) /\ NoAdapter(0)

Init == Start(MaxFrames, MaxSends, MaxShort)

\* connect_stream has returned the stream.
Connected == mpc # "connect"

\* The main thread panics (an expect fails, or a callback unwinds): the process
\* ends, and the relay consumer thread with it.
MainPanics(why) ==
  /\ mpc' = "panicked"
  /\ cause' = why

\* ------------------------------------------------------------ connect_stream
\* The host starts to accept connections.
HostListen ==
  /\ mpc = "connect"
  /\ ~listening
  /\ listening' = TRUE
  /\ UNCHANGED << hostVars, streamVars, readLocals, req, reqStart, mainVars, pluginVars,
                  sendVars, relayVars, retries, slept, adapterVars >>

\* retries - 1 on a u32. The model holds a u32 above 2^31 - 1 by its two's
\* complement representative, so the wrap of 0 - 1 to u32::MAX is -1.
Decrement(r) == r - 1

\* A test of the counter that never gives up.
RetriesNeverExhausted(r) == FALSE

\* if retries == 0 { panic!(...) }
RetriesExhausted(r) == r = 0

\* TcpStream::connect(&addr) returns Err: retries = retries - 1, then panic at
\* 0, else sleep and continue.
ConnectFail ==
  /\ mpc = "connect"
  /\ ~listening
  /\ retries' = Decrement(retries)
  /\ IF RetriesExhausted(retries')
       THEN /\ MainPanics("connect_stream")
            /\ UNCHANGED slept
       ELSE /\ slept' = slept + RETRY_MILLIS
            /\ UNCHANGED << mpc, cause >>
  /\ UNCHANGED << hostVars, streamVars, readLocals, req, reqStart, running, exited,
                  pluginVars, sendVars, relayVars, listening, adapterVars >>

\* TcpStream::connect(&addr) returns Ok(stream): break stream. main goes on to
\* load the plugin, spawn the relay consumer thread and enter its loop.
ConnectOk ==
  /\ mpc = "connect"
  /\ listening
  /\ mpc' = "command_id"
  /\ retries' = 0
  /\ wpc' = "recv"
  /\ UNCHANGED << hostVars, streamVars, readLocals, req, reqStart, running, exited, cause,
                  pluginVars, sendVars, queue, wmsg, written, wire, slept, listening,
                  adapterVars >>

\* ------------------------------------------------------------------ the host
\* The host writes one whole request frame.
HostWrite(f) ==
  /\ Alive
  /\ Connected
  /\ ~hostClosed
  /\ framesLeft > 0
  /\ framesLeft' = framesLeft - 1
  /\ frames' = Append(frames, [frame |-> f, cut |-> Len(EncodeRequest(f))])
  /\ inbuf' = inbuf \o EncodeRequest(f)
  /\ UNCHANGED << hostClosed, consumed, shortLeft, readLocals, req, reqStart, mainVars,
                  pluginVars, sendVars, relayVars >>
  /\ UNCHANGED << startupVars, adapterVars >>

\* The host writes the command id and a strict prefix of the rest of an Invoke
\* or Attach frame, and closes the stream.
HostWriteTruncated(f, n) ==
  /\ Alive
  /\ Connected
  /\ ~hostClosed
  /\ framesLeft > 0
  /\ framesLeft' = framesLeft - 1
  /\ f.kind \in {"Invoke", "Attach"}
  /\ n >= 4 /\ n < Len(EncodeRequest(f))
  /\ frames' = Append(frames, [frame |-> f, cut |-> n])
  /\ inbuf' = inbuf \o Take(EncodeRequest(f), n)
  /\ hostClosed' = TRUE
  /\ UNCHANGED << consumed, shortLeft, readLocals, req, reqStart, mainVars, pluginVars,
                  sendVars, relayVars >>
  /\ UNCHANGED << startupVars, adapterVars >>

\* The host closes the stream at a frame boundary.
HostClose ==
  /\ Alive
  /\ Connected
  /\ ~hostClosed
  /\ hostClosed' = TRUE
  /\ UNCHANGED << frames, framesLeft, streamVars, readLocals, req, reqStart, mainVars,
                  pluginVars, sendVars, relayVars >>
  /\ UNCHANGED << startupVars, adapterVars >>

\* ------------------------------------------------------------ the stream
\* The byte counts one stream.read on a k-byte buffer can return: it blocks
\* while nothing has arrived and the stream is open, returns 0 at end of stream,
\* and otherwise returns at least one and at most k of the unread bytes. A
\* count below what the host has already written is a short read (the rest
\* has not arrived yet).
ReadCounts(k) ==
  IF inbuf = <<>> THEN (IF hostClosed THEN {0} ELSE {})
  ELSE IF shortLeft > 0 THEN 1..Min(k, Len(inbuf))
  ELSE {Min(k, Len(inbuf))}

\* The stream after a read of a k-byte buffer returned n bytes.
Consume(k, n) ==
  /\ inbuf' = Drop(inbuf, n)
  /\ consumed' = consumed + n
  /\ shortLeft' = IF n < Min(k, Len(inbuf)) THEN shortLeft - 1 ELSE shortLeft

\* ------------------------------------------------------------ read_request
ErrRequest(id) == Request("Err", 0, <<>>, <<>>, FALSE, id)

\* read_request returns: its locals are gone.
Return ==
  /\ buf' = ZeroBuf
  /\ channel' = 0
  /\ token_len' = 0
  /\ json_len' = 0
  /\ token' = <<>>

\* What read_request does with the command id it decoded from buffer b.
CommandBranch(b) ==
  IF ReadU32(b) = ID_INVOKE THEN
    /\ mpc' = "inv_channel"
    /\ req' = NoRequest
    /\ buf' = b
  ELSE IF ReadU32(b) = ID_ATTACH THEN
    /\ mpc' = "att_channel"
    /\ req' = NoRequest
    /\ buf' = b
  ELSE IF ReadU32(b) = ID_EXIT THEN
    /\ mpc' = "match"
    /\ req' = Request("Exit", 0, <<>>, <<>>, FALSE, 0)
    /\ buf' = ZeroBuf
  ELSE
    /\ mpc' = "match"
    /\ req' = ErrRequest(ReadU32(b))
    /\ buf' = ZeroBuf

\* stream.read(&mut buf) of the command id into a fresh buffer, and the branch
\* on it.
ReadCommandId ==
  /\ mpc = "command_id"
  /\ \E n \in ReadCounts(4) :
       /\ Consume(4, n)
       /\ CommandBranch(Overlay(ZeroBuf, Take(inbuf, n)))
  /\ reqStart' = consumed
  /\ UNCHANGED << hostVars, channel, token_len, json_len, token, running, exited, cause,
                  pluginVars, sendVars, relayVars >>
  /\ UNCHANGED << startupVars, adapterVars >>

\* One stream.read(&mut buf) of a u32 field into the buffer the call reuses.
ReadField(at, next) ==
  /\ mpc = at
  /\ \E n \in ReadCounts(4) :
       /\ Consume(4, n)
       /\ buf' = Overlay(buf, Take(inbuf, n))
  /\ mpc' = next
  /\ UNCHANGED << hostVars, req, reqStart, running, exited, cause, pluginVars, sendVars,
                  relayVars >>
  /\ UNCHANGED << startupVars, adapterVars >>

ReadInvokeChannel ==
  /\ ReadField("inv_channel", "inv_token_len")
  /\ channel' = ReadU32(buf')
  /\ UNCHANGED << token_len, json_len, token >>

ReadTokenLen ==
  /\ ReadField("inv_token_len", "inv_json_len")
  /\ token_len' = ReadU32(buf')
  /\ UNCHANGED << channel, json_len, token >>

ReadJsonLen ==
  /\ ReadField("inv_json_len", "inv_token")
  /\ json_len' = ReadU32(buf')
  /\ UNCHANGED << channel, token_len, token >>

\* stream.read_exact(&mut jbuf) of len bytes: "ok" with the bytes once they are
\* all there, "eof" when the stream ends before that; it blocks otherwise.
ReadExact(len) ==
  IF Len(inbuf) >= len THEN {[res |-> "ok", bytes |-> Take(inbuf, len)]}
  ELSE IF hostClosed THEN {[res |-> "eof", bytes |-> inbuf]}
  ELSE {}

\* The stream after read_exact took these bytes.
ConsumeExact(bytes) ==
  /\ inbuf' = Drop(inbuf, Len(bytes))
  /\ consumed' = consumed + Len(bytes)
  /\ UNCHANGED shortLeft

\* if token_len > 0 { read_exact; String::from_utf8 }
ReadToken ==
  /\ mpc = "inv_token"
  /\ IF token_len = 0
       THEN /\ token' = <<>>
            /\ mpc' = "inv_json"
            /\ UNCHANGED << streamVars, cause >>
       ELSE \E r \in ReadExact(token_len) :
              /\ ConsumeExact(r.bytes)
              /\ IF r.res = "ok" /\ FromUtf8Ok(r.bytes)
                   THEN /\ token' = r.bytes
                        /\ mpc' = "inv_json"
                        /\ UNCHANGED cause
                   ELSE /\ MainPanics("read_request")
                        /\ UNCHANGED token
  /\ UNCHANGED << hostVars, buf, channel, token_len, json_len, req, reqStart, running, exited,
                  pluginVars, sendVars, relayVars >>
  /\ UNCHANGED << startupVars, adapterVars >>

\* if json_len > 0 { read_exact; String::from_utf8 }; Request::Invoke(req)
ReadJson ==
  /\ mpc = "inv_json"
  /\ IF json_len = 0
       THEN /\ req' = Request("Invoke", channel, token, <<>>, FALSE, 0)
            /\ mpc' = "match"
            /\ UNCHANGED << streamVars, cause >>
       ELSE \E r \in ReadExact(json_len) :
              /\ ConsumeExact(r.bytes)
              /\ IF r.res = "ok" /\ FromUtf8Ok(r.bytes)
                   THEN /\ req' = Request("Invoke", channel, token, r.bytes, FALSE, 0)
                        /\ mpc' = "match"
                        /\ UNCHANGED cause
                   ELSE /\ MainPanics("read_request")
                        /\ UNCHANGED req
  /\ Return
  /\ UNCHANGED << hostVars, reqStart, running, exited, pluginVars, sendVars, relayVars >>
  /\ UNCHANGED << startupVars, adapterVars >>

ReadAttachChannel ==
  /\ ReadField("att_channel", "att_attach")
  /\ channel' = ReadU32(buf')
  /\ UNCHANGED << token_len, json_len, token >>

\* stream.read(&mut buf1) into a fresh one-byte buffer; attach = buf1[0] != 0
ReadAttach ==
  /\ mpc = "att_attach"
  /\ \E n \in ReadCounts(1) :
       /\ Consume(1, n)
       /\ req' = Request("Attach", channel, <<>>, <<>>,
                         Overlay(<<0>>, Take(inbuf, n))[1] # 0, 0)
  /\ mpc' = "match"
  /\ Return
  /\ UNCHANGED << hostVars, reqStart, running, exited, cause, pluginVars, sendVars, relayVars >>
  /\ UNCHANGED << startupVars, adapterVars >>

\* ------------------------------------------------------- the dispatch loop
Call(fn, c, t, j) == [fn |-> fn, channel |-> c, token |-> t, json |-> j]

\* RequestContext { channel: req.channel, auth_token: req.token, responder: tx.clone() }
RequestContext(r) == [channel |-> r.channel, auth_token |-> r.token]

\* A call that leaves the callback running and goes back to the loop.
CallPcDetached == "command_id"

\* Where main is after calling a plugin callback: inside the call, until it
\* returns.
CallPc == "callback"

\* Request::Invoke(req) => plugin.on_message(req.json, req_ctx). The plugin
\* keeps a clone of every context it is given, for its worker thread.
DispatchInvoke ==
  /\ mpc = "match"
  /\ req.kind = "Invoke"
  /\ ctx' = << RequestContext(req) >>
  /\ held' = held \cup { RequestContext(req) }
  /\ calls' = Append(calls, Call("on_message", req.channel, req.token, req.json))
  /\ executing' = executing + 1
  /\ callAt' = Append(callAt, reqStart)
  /\ mpc' = CallPc
  /\ req' = NoRequest
  /\ UNCHANGED << hostVars, streamVars, readLocals, reqStart, running, exited, cause, sendVars,
                  relayVars >>
  /\ UNCHANGED << startupVars, adapterVars >>

\* The callback an Attach request selects.
AttachCallback(attach) ==
  IF attach THEN "on_client_connect" ELSE "on_client_disconnect"

\* Request::Attach(req) => on_client_connect or on_client_disconnect
DispatchAttach ==
  /\ mpc = "match"
  /\ req.kind = "Attach"
  /\ ctx' = <<>>
  /\ calls' = Append(calls, Call(AttachCallback(req.attach), req.channel, <<>>, <<>>))
  /\ executing' = executing + 1
  /\ callAt' = Append(callAt, reqStart)
  /\ mpc' = CallPc
  /\ req' = NoRequest
  /\ UNCHANGED << hostVars, streamVars, readLocals, reqStart, running, exited, cause, held,
                  sendVars, relayVars >>
  /\ UNCHANGED << startupVars, adapterVars >>

\* An Exit arm that leaves the flag as it was.
ExitRunningKept == TRUE

\* The value the Exit arm gives main's running flag.
ExitRunning == FALSE

\* Where main goes after a match arm: the while condition, then either the
\* next read_request or drop(stream) and the return from main.
AfterArm(run) == IF run THEN "command_id" ELSE "done"

\* Request::Exit() => running = false
DispatchExit ==
  /\ mpc = "match"
  /\ req.kind = "Exit"
  /\ running' = ExitRunning
  /\ exited' = TRUE
  /\ mpc' = AfterArm(running')
  /\ req' = NoRequest
  /\ UNCHANGED << hostVars, streamVars, readLocals, reqStart, cause, pluginVars, sendVars,
                  relayVars >>
  /\ UNCHANGED << startupVars, adapterVars >>

\* Request::Err(e) => println!
DispatchErr ==
  /\ mpc = "match"
  /\ req.kind = "Err"
  /\ mpc' = AfterArm(running)
  /\ req' = NoRequest
  /\ UNCHANGED << hostVars, streamVars, readLocals, reqStart, running, exited, cause, pluginVars,
                  sendVars, relayVars >>
  /\ UNCHANGED << startupVars, adapterVars >>

\* --------------------------------------------------- RequestContext::send
\* Message { channel: self.channel, data: json }; id is the history index of
\* the send call that made it.
Message(c, json, id) == [channel |-> c.channel, data |-> json, id |-> id]

\* A send that puts the Message at the front of the queue.
EnqueueFront(q, m) == <<m>> \o q

\* Sender::send on the mpsc channel: the Message goes to the back of the queue.
Enqueue(q, m) == Append(q, m)

\* The channel's Receiver has been dropped: the thread that owned it ended.
ReceiverGone == wpc = "panicked" \/ cpc \in {"panicked", "ended"}

\* A send on a disconnected channel that queues the Message all the same.
DisconnectedKeeps(q, m) == Append(q, m)

\* Sender::send on a disconnected channel: Err(SendError(m)), nothing queued.
Disconnected(q, m) == q

\* let _result = self.responder.send(m): with the receiver gone the send fails
\* and the result is ignored. The history records whether the receiver was
\* gone.
Send(c, json, who) ==
  /\ sendsLeft > 0
  /\ sendsLeft' = sendsLeft - 1
  /\ sent' = Append(sent, [channel |-> c.channel, data |-> json, producer |-> who,
                           gone |-> ReceiverGone])
  /\ queue' = IF ReceiverGone
                THEN Disconnected(queue, Message(c, json, Len(sent) + 1))
                ELSE Enqueue(queue, Message(c, json, Len(sent) + 1))

\* ------------------------------------------------------- the plugin callbacks
\* The running callback calls send on the context it was given or on one the
\* plugin kept.
CallbackSend(c, json) ==
  /\ mpc = "callback"
  /\ c \in { ctx[i] : i \in 1..Len(ctx) } \cup held
  /\ Send(c, json, "dispatcher")
  /\ UNCHANGED << hostVars, streamVars, readLocals, req, reqStart, mainVars, pluginVars,
                  wpc, wmsg, written, wire >>
  /\ UNCHANGED << startupVars, adapterVars >>

\* The callback returns; the loop continues with the next read_request.
CallbackReturn ==
  /\ mpc = "callback"
  /\ ctx' = <<>>
  /\ executing' = executing - 1
  /\ mpc' = AfterArm(running)
  /\ UNCHANGED << hostVars, streamVars, readLocals, req, reqStart, running, exited, cause, held,
                  calls, callAt, sendVars, relayVars >>
  /\ UNCHANGED << startupVars, adapterVars >>

\* The callback panics: main has no catch_unwind around the call.
CallbackPanic ==
  /\ mpc = "callback"
  /\ MainPanics("callback")
  /\ executing' = executing - 1
  /\ UNCHANGED << hostVars, streamVars, readLocals, req, reqStart, running, exited, ctx, held,
                  calls, callAt, sendVars, relayVars >>
  /\ UNCHANGED << startupVars, adapterVars >>

\* The plugin's worker thread calls send on a context it holds.
WorkerSend(c, json) ==
  /\ Alive
  /\ c \in held
  /\ Send(c, json, "worker")
  /\ UNCHANGED << hostVars, streamVars, readLocals, req, reqStart, mainVars, pluginVars,
                  wpc, wmsg, written, wire >>
  /\ UNCHANGED << startupVars, adapterVars >>

\* ------------------------------------------------------ the relay consumer
\* The Message rx.recv() returns: the oldest in the queue.
RecvIndex(q) == 1

RemoveAt(q, i) == SubSeq(q, 1, i - 1) \o SubSeq(q, i + 1, Len(q))

\* while let Ok(msg) = rx.recv()
WriterRecv ==
  /\ Alive
  /\ wpc = "recv"
  /\ queue # <<>>
  /\ wmsg' = << queue[RecvIndex(queue)] >>
  /\ queue' = RemoveAt(queue, RecvIndex(queue))
  /\ wpc' = "send"
  /\ UNCHANGED << hostVars, streamVars, readLocals, req, reqStart, mainVars, pluginVars,
                  sendVars, written, wire >>
  /\ UNCHANGED << startupVars, adapterVars >>

\* The response frame send_response hands to the stream for a Message:
\* channel, json.len(), json.
SendResponse(m) ==
  [channel |-> m.channel, json_len |-> Len(m.data), json |-> m.data, id |-> m.id]

\* The buffers send_response offers to stream.write, in order: buf with the
\* channel, buf with json.len() as u32, json.as_bytes() (no write when empty).
ResponseWrites(m) == << WriteU32(m.channel), WriteU32(Len(m.data)), m.data >>

\* The byte counts one stream.write of these bytes can return: all of them, or
\* at least one and fewer (a short write).
WriteCounts(bytes) ==
  IF bytes = <<>> THEN {0}
  ELSE IF shortLeft > 0 THEN 1..Len(bytes)
  ELSE {Len(bytes)}

\* How many of the three writes were short.
ShortWrites(w, n1, n2, n3) ==
  (IF n1 < Len(w[1]) THEN 1 ELSE 0) + (IF n2 < Len(w[2]) THEN 1 ELSE 0)
    + (IF n3 < Len(w[3]) THEN 1 ELSE 0)

\* send_response(&mut writer, msg.channel, msg.data): three stream.write calls,
\* each checked for Err only; the stream keeps what each write accepted.
WriterSend ==
  /\ Alive
  /\ wpc = "send"
  /\ written' = Append(written, SendResponse(wmsg[1]))
  /\ LET w == ResponseWrites(wmsg[1])
     IN  \E n1 \in WriteCounts(w[1]) : \E n2 \in WriteCounts(w[2]) :
           \E n3 \in WriteCounts(w[3]) :
             /\ ShortWrites(w, n1, n2, n3) <= shortLeft
             /\ shortLeft' = shortLeft - ShortWrites(w, n1, n2, n3)
             /\ wire' = wire \o Take(w[1], n1) \o Take(w[2], n2) \o Take(w[3], n3)
  /\ wmsg' = <<>>
  /\ wpc' = "recv"
  /\ UNCHANGED << hostVars, inbuf, consumed, readLocals, req, reqStart, mainVars, pluginVars,
                  sendVars, queue >>
  /\ UNCHANGED << startupVars, adapterVars >>

\* A stream.write of send_response fails after the host closed the connection:
\* expect panics, the thread ends, and rx is dropped with what it holds.
WriterFail ==
  /\ Alive
  /\ wpc = "send"
  /\ hostClosed
  /\ wpc' = "panicked"
  /\ wmsg' = <<>>
  /\ queue' = <<>>
  /\ UNCHANGED << hostVars, streamVars, readLocals, req, reqStart, mainVars, pluginVars,
                  sendVars, written, wire >>
  /\ UNCHANGED << startupVars, adapterVars >>

\* ------------------------------------------------ the native-module surface
\* The process-link variables are not used here (mpc is "none"); the mpsc
\* channel of the instance is queue, and RequestContext::send is Send.

\* What a panic that leaves an extern fn does: the process aborts, or the
\* unwinding goes on into the host's frames.
EscapeOutcomes == {"aborted", "unwound"}

\* The plugin code a host thread can be inside of through the three callbacks.
Callbacks == {"on_message", "on_client_connect", "on_client_disconnect"}

\* A C string read from its pointer: the bytes before the first NUL.
RECURSIVE FromPtr(_)
FromPtr(b) == IF b = <<>> \/ b[1] = 0 THEN <<>> ELSE <<b[1]>> \o FromPtr(Tail(b))

\* CString::new(data): Err when data holds a NUL byte, else data and the
\* terminating NUL.
CStringNew(data) ==
  IF \E i \in 1..Len(data) : data[i] = 0
    THEN [ok |-> FALSE, bytes |-> <<>>]
    ELSE [ok |-> TRUE, bytes |-> data \o <<0>>]

\* cstr_to_string(s): CStr::from_ptr(s).to_str().unwrap().to_owned()
CstrToString(b) == [ok |-> FromUtf8Ok(FromPtr(b)), s |-> FromPtr(b)]

\* wpe_rust_plugin_create when (service_metadata.create)() returns: the channel
\* is made, the CPlugin boxed with tx, the consumer thread spawned with rx,
\* send_func and plugin_ctx.
CreateReturns(t, tok) ==
  /\ boundary = "ok"
  /\ handle = "none"
  /\ hpc[t] = "idle"
  /\ handle' = "live"
  /\ plugin_ctx' = tok
  /\ cpc' = "recv"
  /\ queue' = <<>>
  /\ UNCHANGED << hostVars, streamVars, readLocals, req, reqStart, mainVars, pluginVars,
                  sendVars, wpc, wmsg, written, wire, startupVars, hpc, boundary, delivered,
                  callsLeft >>

\* wpe_rust_plugin_create when (service_metadata.create)() panics: nothing
\* catches it and it leaves the extern fn.
CreatePanics(t, out) ==
  /\ boundary = "ok"
  /\ handle = "none"
  /\ hpc[t] = "idle"
  /\ boundary' = out
  /\ UNCHANGED << hostVars, streamVars, readLocals, req, reqStart, mainVars, pluginVars,
                  sendVars, relayVars, startupVars, handle, plugin_ctx, hpc, cpc, delivered,
                  callsLeft >>

\* The host calls destroy when no other call on the handle is in progress.
MayDestroy(t) ==
  /\ boundary = "ok"
  /\ handle = "live"
  /\ \A u \in HostThreads : hpc[u] = "idle"

\* wpe_rust_plugin_destroy: drop(Box::from_raw(ptr)) drops the plugin and the
\* CPlugin's sender.
DestroyReturns(t) ==
  /\ MayDestroy(t)
  /\ handle' = "destroyed"
  /\ UNCHANGED << hostVars, streamVars, readLocals, req, reqStart, mainVars, pluginVars,
                  sendVars, relayVars, startupVars, plugin_ctx, hpc, boundary, cpc, delivered,
                  callsLeft >>

\* wpe_rust_plugin_destroy when the plugin's drop panics: the other fields are
\* dropped while unwinding, and the panic leaves the extern fn.
DestroyPanics(t, out) ==
  /\ MayDestroy(t)
  /\ handle' = "destroyed"
  /\ boundary' = out
  /\ UNCHANGED << hostVars, streamVars, readLocals, req, reqStart, mainVars, pluginVars,
                  sendVars, relayVars, startupVars, plugin_ctx, hpc, cpc, delivered,
                  callsLeft >>

\* The host makes a call on the live handle from thread t.
HostCalls(t) ==
  /\ boundary = "ok"
  /\ handle = "live"
  /\ hpc[t] = "idle"
  /\ callsLeft > 0
  /\ callsLeft' = callsLeft - 1

\* wpe_rust_plugin_invoke up to the call of plugin.on_message, inside
\* catch_unwind: cstr_to_string of json_req and auth_token, the RequestContext
\* with sender.clone(). A string that is not UTF-8 panics in unwrap, which
\* catch_unwind catches: the extern fn returns without a callback. The plugin
\* keeps a clone of the context.
InvokeEnter(t, c, tk, j) ==
  /\ HostCalls(t)
  /\ IF CstrToString(j).ok /\ CstrToString(tk).ok
       THEN /\ hpc' = [hpc EXCEPT ![t] = "on_message"]
            /\ calls' = Append(calls, Call("on_message", c, CstrToString(tk).s,
                                           CstrToString(j).s))
            /\ held' = held \cup { [channel |-> c, auth_token |-> CstrToString(tk).s] }
       ELSE UNCHANGED << hpc, calls, held >>
  /\ UNCHANGED << hostVars, streamVars, readLocals, req, reqStart, mainVars, ctx, executing,
                  callAt, sendVars, relayVars, startupVars, handle, plugin_ctx, boundary, cpc,
                  delivered >>

\* wpe_rust_plugin_on_client_connect / _disconnect up to the call of the
\* plugin's callback, inside catch_unwind.
AttachEnter(t, c, attach) ==
  /\ HostCalls(t)
  /\ hpc' = [hpc EXCEPT ![t] = AttachCallback(attach)]
  /\ calls' = Append(calls, Call(AttachCallback(attach), c, <<>>, <<>>))
  /\ UNCHANGED << hostVars, streamVars, readLocals, req, reqStart, mainVars, ctx, held,
                  executing, callAt, sendVars, relayVars, startupVars, handle, plugin_ctx,
                  boundary, cpc, delivered >>

\* The callback thread t is in returns, or panics and catch_unwind catches the
\* panic: either way the extern fn returns to the host.
CallReturns(t) ==
  /\ boundary = "ok"
  /\ hpc[t] \in Callbacks
  /\ hpc' = [hpc EXCEPT ![t] = "idle"]
  /\ UNCHANGED << hostVars, streamVars, readLocals, req, reqStart, mainVars, pluginVars,
                  sendVars, relayVars, startupVars, handle, plugin_ctx, boundary, cpc,
                  delivered, callsLeft >>

\* The on_message running on thread t calls send on a context.
InvokeSend(t, c, json) ==
  /\ boundary = "ok"
  /\ hpc[t] = "on_message"
  /\ c \in held
  /\ Send(c, json, "dispatcher")
  /\ UNCHANGED << hostVars, streamVars, readLocals, req, reqStart, mainVars, pluginVars,
                  wpc, wmsg, written, wire, startupVars, adapterVars >>

\* A thread of the plugin calls send on a context the plugin kept.
KeptSend(c, json) ==
  /\ boundary = "ok"
  /\ cpc # "none"
  /\ WorkerSend(c, json)

\* The plugin drops a context it kept.
DropContext(c) ==
  /\ boundary = "ok"
  /\ cpc # "none"
  /\ c \in held
  /\ held' = held \ {c}
  /\ UNCHANGED << hostVars, streamVars, readLocals, req, reqStart, mainVars, ctx, calls,
                  executing, callAt, sendVars, relayVars, startupVars, adapterVars >>

\* A Sender of the instance's channel is alive: the CPlugin's, or a context's.
SendersAlive == handle = "live" \/ held # {}

\* What the host's send_func receives for a Message: its channel, the C string
\* read back, and the plugin_ctx the thread captured.
Delivery(m, cstring) ==
  [channel |-> m.channel, data |-> FromPtr(cstring), ctx |-> plugin_ctx, id |-> m.id]

\* One turn of the consumer thread's loop: rx.recv() returns the oldest
\* Message, CString::new(m.data).unwrap(), send_func(m.channel, ptr,
\* plugin_ctx). When unwrap panics the thread ends and rx is dropped.
ConsumerDeliver ==
  /\ boundary = "ok"
  /\ cpc = "recv"
  /\ queue # <<>>
  /\ LET m == queue[RecvIndex(queue)]
         cs == CStringNew(m.data)
     IN  IF cs.ok
           THEN /\ delivered' = Append(delivered, Delivery(m, cs.bytes))
                /\ queue' = RemoveAt(queue, RecvIndex(queue))
                /\ UNCHANGED cpc
           ELSE /\ cpc' = "panicked"
                /\ queue' = <<>>
                /\ UNCHANGED delivered
  /\ UNCHANGED << hostVars, streamVars, readLocals, req, reqStart, mainVars, pluginVars,
                  sendVars, wpc, wmsg, written, wire, startupVars, handle, plugin_ctx, hpc,
                  boundary, callsLeft >>

\* rx.recv() returns Err: the queue is empty and every Sender is dropped. The
\* while let ends and the thread with it.
ConsumerEnd ==
  /\ boundary = "ok"
  /\ cpc = "recv"
  /\ queue = <<>>
  /\ ~SendersAlive
  /\ cpc' = "ended"
  /\ UNCHANGED << hostVars, streamVars, readLocals, req, reqStart, mainVars, pluginVars,
                  sendVars, relayVars, startupVars, handle, plugin_ctx, hpc, boundary,
                  delivered, callsLeft >>

\* ------------------------------------------------------------ specification
Host ==
  \/ \E f \in Frames : HostWrite(f)
  \/ \E f \in Frames : \E n \in Cuts : HostWriteTruncated(f, n)
  \/ HostClose

ReadRequest ==
  \/ ReadCommandId
  \/ ReadInvokeChannel
  \/ ReadTokenLen
  \/ ReadJsonLen
  \/ ReadToken
  \/ ReadJson
  \/ ReadAttachChannel
  \/ ReadAttach

Dispatch ==
  \/ DispatchInvoke
  \/ DispatchAttach
  \/ DispatchExit
  \/ DispatchErr

Callback ==
  \/ \E c \in held : \E json \in Responses : CallbackSend(c, json)
  \/ CallbackReturn
  \/ CallbackPanic

Worker == \E c \in held : \E json \in Responses : WorkerSend(c, json)

Writer ==
  \/ WriterRecv
  \/ WriterSend
  \/ WriterFail

Next ==
  \/ Host
  \/ ReadRequest
  \/ Dispatch
  \/ Callback
  \/ Worker
  \/ Writer

Spec == Init /\ [][Next]_vars

\* The runs from the call of connect_stream on: the host not yet listening, no
\* relay consumer thread yet.
ConnectStream ==
  \/ HostListen
  \/ ConnectFail
  \/ ConnectOk

ConnectNext == ConnectStream \/ Next

ConnectSpec ==
  /\ Begin("connect", RETRIES, FALSE, "none", ConnFrames, ConnSends, 0)
  /\ NoAdapter(0)
  /\ [][ConnectNext]_vars

\* The native-module variant: the host's threads on the C surface, the plugin
\* and the instance's consumer thread.
Surface ==
  \/ \E t \in HostThreads : \E tok \in PluginCtxs : CreateReturns(t, tok)
  \/ \E t \in HostThreads : \E out \in EscapeOutcomes : CreatePanics(t, out)
  \/ \E t \in HostThreads : DestroyReturns(t)
  \/ \E t \in HostThreads : \E out \in EscapeOutcomes : DestroyPanics(t, out)
  \/ \E t \in HostThreads : \E c \in Channels : \E tk \in AdapterTokens :
       \E j \in AdapterPayloads : InvokeEnter(t, c, tk, j)
  \/ \E t \in HostThreads : \E c \in Channels : \E a \in BOOLEAN : AttachEnter(t, c, a)
  \/ \E t \in HostThreads : CallReturns(t)

AdapterPlugin ==
  \/ \E t \in HostThreads : \E c \in held : \E json \in AdapterResponses :
       InvokeSend(t, c, json)
  \/ \E c \in held : \E json \in AdapterResponses : KeptSend(c, json)
  \/ \E c \in held : DropContext(c)

Consumer ==
  \/ ConsumerDeliver
  \/ ConsumerEnd

AdapterNext ==
  \/ Surface
  \/ AdapterPlugin
  \/ Consumer

AdapterSpec ==
  /\ Begin("none", 0, FALSE, "none", 0, AdapterSends, 0)
  /\ NoAdapter(AdapterCalls)
  /\ [][AdapterNext]_vars

\* The runs in which every read returns all the bytes the host has written for
\* it and every write takes all the bytes offered (no short reads or writes).
WholeSpec == Start(MaxFrames, MaxSends, 0) /\ [][Next]_vars

\* The runs that exercise the relay: more sends, no short reads.
RelaySpec == Start(RelayFrames, RelaySends, 0) /\ [][Next]_vars

\* The main thread and the relay consumer are operating-system threads: a step
\* of either that stays possible is eventually taken, and a callback returns or
\* panics.
MainStep == ReadRequest \/ Dispatch \/ CallbackReturn \/ CallbackPanic

FairSpec ==
  /\ Start(FairFrames, MaxSends, 0)
  /\ [][Next]_vars
  /\ WF_vars(MainStep)
  /\ WF_vars(Writer)

\* ------------------------------------------------------ history helpers
IsPrefix(a, b) == Len(a) <= Len(b) /\ a = SubSeq(b, 1, Len(a))

\* Frame i went out whole.
Whole(i) == frames[i].cut = Len(EncodeRequest(frames[i].frame))

\* The stream offset of the first byte of frame i.
RECURSIVE Offset(_)
Offset(i) == IF i = 1 THEN 0 ELSE Offset(i - 1) + frames[i - 1].cut

\* The ids of the Messages handed to the write path so far, in order.
Handed == [i \in 1..Len(written) |-> written[i].id]
            \o [i \in 1..Len(wmsg) |-> wmsg[i].id]

\* The ids of the send calls of one producer, in call order.
SentBy(p) == SelectSeq([i \in 1..Len(sent) |-> i], LAMBDA i : sent[i].producer = p)

\* The ids handed to the write path that one producer sent.
HandedBy(p) == SelectSeq(Handed, LAMBDA i : sent[i].producer = p)

Producers == {"dispatcher", "worker"}

\* ------------------------------------------------------------------ claims

\* C1: every Message enqueued before the dispatcher processed Exit is written
\* to the connection by the relay consumer before the process ends (the relay
\* consumer not having failed on a write).
C1_ExitFlushesRelay ==
  (mpc = "done" /\ wpc # "panicked") =>
     \A i \in 1..Len(sent) : \E j \in 1..Len(written) : written[j].id = i

\* C2: the Messages one producer submits are handed to the write path in
\* exactly the order that producer submitted them, whatever the other
\* producer's sends do in between.
C2_PerProducerOrder ==
  /\ \A p \in Producers : IsPrefix(HandedBy(p), SentBy(p))
  /\ \A i \in 1..Len(written) :
       /\ written[i].channel = sent[written[i].id].channel
       /\ written[i].json = sent[written[i].id].data

\* C2 witness: the dispatcher sent, the worker sent, the dispatcher sent again,
\* and all three were written.
C2_Witness ==
  /\ Len(sent) = 3
  /\ sent[1].producer = "dispatcher"
  /\ sent[2].producer = "worker"
  /\ sent[3].producer = "dispatcher"
  /\ Len(written) = 3

\* C3: a panic of the plugin inside a callback is caught at the call: the
\* process lives on and the dispatch loop keeps running.
C3_CallbackPanicContained == (cause = "callback") => Alive

\* The host closed the stream inside frame i.
Truncated(i) == i \in 1..Len(frames) /\ ~Whole(i)

\* read_request has returned a request whose decoding began at the first byte
\* of frame i.
ReturnedFor(i) == i \in 1..Len(frames) /\ mpc = "match" /\ reqStart = Offset(i)

\* C4: when the host closes the stream inside an Invoke or Attach frame,
\* read_request returns no Invoke or Attach request for it, so no callback is
\* made for it, and the loop does not go on to another read_request.
C4_TruncatedFrameIsFatal ==
  \A i \in 1..Len(frames) :
    Truncated(i) =>
      /\ ReturnedFor(i) => req.kind \notin {"Invoke", "Attach"}
      /\ (mpc = "command_id" => consumed <= Offset(i))

\* The decode of frame i, a frame with an unknown command id, has just
\* returned the Err request.
BadFrameReported(i) ==
  /\ ReturnedFor(i)
  /\ frames[i].frame.kind = "Bad"
  /\ req = ErrRequest(frames[i].frame.id)

\* C5: once read_request has reported a frame with an unknown command id the
\* loop ends: main does not go back to read_request.
C5_UnknownIdEndsLoop ==
  [][ (\E i \in 1..Len(frames) : BadFrameReported(i)) => mpc' # "command_id" ]_vars

\* The host closed the stream at a frame boundary.
ClosedAtBoundary == hostClosed /\ \A i \in 1..Len(frames) : Whole(i)

\* C6: once the host has closed the stream at a frame boundary the dispatcher
\* terminates.
C6_CloseEndsDispatcher == ClosedAtBoundary ~> ~Alive

\* C7: after main has processed an Exit request it reads nothing more from the
\* stream and makes no further callback.
C7_NothingAfterExit ==
  [][ exited => (consumed' = consumed /\ calls' = calls /\ mpc' = "done") ]_vars

\* C7 witness: Exit has been processed while bytes the host wrote after it are
\* still unread.
C7_Witness == exited /\ inbuf # <<>> /\ mpc = "done"

\* Every frame the host wrote went out whole.
AllWhole == \A i \in 1..Len(frames) : Whole(i)

\* The callback a whole Invoke or Attach frame asks for.
CallFor(f) ==
  IF f.kind = "Invoke" THEN Call("on_message", f.channel, f.token, f.json)
  ELSE Call(AttachCallback(f.attach # 0), f.channel, <<>>, <<>>)

\* The on_message calls the Invoke frames written so far ask for, in order.
InvokesAsked ==
  LET inv == SelectSeq(frames, LAMBDA x : x.frame.kind = "Invoke")
  IN  [i \in 1..Len(inv) |-> CallFor(inv[i].frame)]

\* The on_message calls made so far.
InvokesMade == SelectSeq(calls, LAMBDA c : c.fn = "on_message")

\* Response frame j is the frame of the send call it names.
FrameOfItsSend(j) ==
  /\ written[j].id \in 1..Len(sent)
  /\ written[j].channel = sent[written[j].id].channel
  /\ written[j].json_len = Len(sent[written[j].id].data)
  /\ written[j].json = sent[written[j].id].data
  /\ \A k \in 1..Len(written) : written[k].id = written[j].id => k = j

\* C8: with whole frames from the host, on_message is called once per Invoke
\* frame with that frame's payload, channel and token; every response frame
\* written is the one frame of a send call, with that context's channel, the
\* payload's length and the payload; and every send made while the relay
\* consumer runs gets its frame: none is left unwritten when the process ends.
C8_InvokeAndResponses ==
  AllWhole =>
    /\ IsPrefix(InvokesMade, InvokesAsked)
    /\ \A j \in 1..Len(written) : FrameOfItsSend(j)
    /\ (mpc = "done" /\ wpc # "panicked") => Len(written) = Len(sent)

\* Every frame the host wrote is a whole Attach frame.
OnlyAttachFrames ==
  \A i \in 1..Len(frames) : Whole(i) /\ frames[i].frame.kind = "Attach"

\* C9: for a sequence of Attach frames the callbacks made are, in frame order,
\* on_client_connect(channel) for a non-zero attach byte and
\* on_client_disconnect(channel) for a zero one, and nothing is written that no
\* send call produced.
C9_AttachCallbacks ==
  OnlyAttachFrames =>
    /\ IsPrefix(calls, [i \in 1..Len(frames) |-> CallFor(frames[i].frame)])
    /\ Len(written) <= Len(sent)

\* C10: the decode of a frame with an unknown command id returns the Err
\* request carrying that id, having consumed the four bytes of the id and no
\* more.
C10_UnknownIdYieldsErr ==
  \A i \in 1..Len(frames) :
    (ReturnedFor(i) /\ frames[i].frame.kind = "Bad") =>
       /\ req = ErrRequest(frames[i].frame.id)
       /\ consumed = reqStart + 4

\* The Invoke request a whole Invoke frame encodes.
InvokeOf(f) == Request("Invoke", f.channel, f.token, f.json, FALSE, 0)

\* C11: for a whole Invoke frame, however its bytes arrive in chunks,
\* read_request returns Invoke with exactly the frame's channel, token and
\* payload, and has consumed exactly the frame's 16 + token_len + payload_len
\* bytes; no integer is assembled from a partial read.
C11_InvokeDecodedWhole ==
  AllWhole =>
    \A i \in 1..Len(frames) :
      (ReturnedFor(i) /\ frames[i].frame.kind = "Invoke") =>
         /\ req = InvokeOf(frames[i].frame)
         /\ consumed = Offset(i) + 16 + Len(frames[i].frame.token)
                          + Len(frames[i].frame.json)

\* The response layout: channel, payload_len, payload_len bytes of payload.
EncodeResponse(c, payload) == WriteU32(c) \o WriteU32(Len(payload)) \o payload

\* Decoding bytes as responses: the (channel, payload) pairs of the whole
\* frames at the front, and the bytes left over that make no whole frame.
RECURSIVE DecodeResponses(_)
DecodeResponses(b) ==
  IF Len(b) < 8 \/ Len(b) < 8 + ReadU32(SubSeq(b, 5, 8))
    THEN [msgs |-> <<>>, rest |-> b]
    ELSE LET n == ReadU32(SubSeq(b, 5, 8))
             d == DecodeResponses(Drop(b, 8 + n))
         IN  [msgs |-> << [channel |-> ReadU32(Take(b, 4)), data |-> SubSeq(b, 9, 8 + n)] >>
                        \o d.msgs,
              rest |-> d.rest]

\* The (channel, payload) of the Messages send_response was called with.
MessagesWritten ==
  [j \in 1..Len(written) |->
     [channel |-> sent[written[j].id].channel, data |-> sent[written[j].id].data]]

RECURSIVE EncodeResponses(_)
EncodeResponses(ms) ==
  IF ms = <<>> THEN <<>>
  ELSE EncodeResponse(ms[1].channel, ms[1].data) \o EncodeResponses(Tail(ms))

\* C12: the bytes send_response puts on the connection for a Message are its
\* channel, the length of its payload and the payload, so that decoding them
\* as responses gives back each (channel, payload), also when a write takes
\* fewer bytes than offered.
C12_ResponseEncoded ==
  /\ wire = EncodeResponses(MessagesWritten)
  /\ DecodeResponses(wire) = [msgs |-> MessagesWritten, rest |-> <<>>]

\* Send i was made after the consumer had stopped.
Dropped(i) == i \in 1..Len(sent) /\ sent[i].gone

\* The Message of send i is not queued, not taken, not written, not delivered.
NowhereToBeFound(i) ==
  /\ \A j \in 1..Len(queue) : queue[j].id # i
  /\ \A j \in 1..Len(wmsg) : wmsg[j].id # i
  /\ \A j \in 1..Len(written) : written[j].id # i
  /\ \A j \in 1..Len(delivered) : delivered[j].id # i

\* C13: a send made after the relay consumer has stopped returns to its caller
\* as any send does (the caller goes on, nothing panics), queues nothing, is
\* never written or delivered, and leaves the contexts usable.
C13_SendAfterConsumerStopped ==
  /\ [](\A i \in 1..Len(sent) : Dropped(i) => NowhereToBeFound(i))
  /\ [][ (ReceiverGone /\ sent' # sent) =>
           (sent'[Len(sent')].gone /\ queue' = queue /\ wire' = wire /\ mpc' = mpc
              /\ cause' = cause /\ wpc' = wpc /\ ctx' = ctx /\ held' = held) ]_vars

\* C13 witness: two sends on the same context were made after the relay
\* consumer had stopped, and the dispatcher is still in its loop.
C13_Witness ==
  /\ wpc = "panicked"
  /\ \E i, j \in 1..Len(sent) :
       i < j /\ Dropped(i) /\ Dropped(j) /\ sent[i].channel = sent[j].channel
  /\ Alive

\* connect_stream is still trying.
Connecting == mpc = "connect"

\* connect_stream gave up after its last attempt: main has panicked without a
\* sleep after that attempt and without having read or dispatched anything.
GaveUp ==
  /\ mpc = "panicked"
  /\ ~listening
  /\ retries = 0
  /\ slept = RETRY_MILLIS * (RETRIES - 1)
  /\ consumed = 0
  /\ calls = <<>>

\* C16: connect_stream makes at most RETRIES attempts, sleeping RETRY_MILLIS
\* after each failed one but the last; its counter stays within 1..RETRIES
\* while it tries; the attempt made while the host listens ends it with the
\* stream; after RETRIES failures it panics, and main never enters its loop.
C16_BoundedRetry ==
  /\ [](Connecting => (retries \in 1..RETRIES
                         /\ slept = RETRY_MILLIS * (RETRIES - retries)))
  /\ [](slept <= RETRY_MILLIS * (RETRIES - 1))
  /\ [](cause = "connect_stream" => GaveUp)
  /\ []((Connected /\ cause # "connect_stream") => listening)
  /\ [][ (Connecting /\ listening) => mpc' = "command_id" ]_vars

\* C16 witness: every attempt failed and connect_stream gave up.
C16_Witness == cause = "connect_stream" /\ retries = 0 /\ slept = 1900

RECURSIVE Increasing(_)
Increasing(q) ==
  Len(q) < 2 \/ (q[1] < q[2] /\ Increasing(Tail(q)))

\* C17: while a callback executes main reads nothing and starts no other
\* callback, so at most one callback executes at a time, and the callbacks are
\* made in the order of the stream offsets their requests began at.
C17_SequentialDispatch ==
  /\ [](executing \in {0, 1} /\ Len(callAt) = Len(calls) /\ Increasing(callAt))
  /\ [][ executing > 0 => (consumed' = consumed /\ calls' = calls) ]_vars

\* C17 witness: a callback is executing while the next frame waits unread.
C17_Witness == executing = 1 /\ Len(calls) = 1 /\ Len(frames) = 2 /\ inbuf # <<>>

\* The ids of the Messages written, in the order written.
WrittenIds == [j \in 1..Len(written) |-> written[j].id]

\* C18: the bytes on the connection are whole response frames, one per
\* Message written, in the order the Messages arrived at the queue, none twice;
\* only the relay consumer thread writes and only the main thread reads.
C18_SingleWriterWholeFrames ==
  /\ [](DecodeResponses(wire).rest = <<>>)
  /\ [](Len(DecodeResponses(wire).msgs) = Len(written))
  /\ [](Increasing(WrittenIds))
  /\ [][ wire' # wire => (wpc = "send" /\ wpc' = "recv" /\ mpc' = mpc) ]_vars
  /\ [][ consumed' # consumed => (wpc' = wpc /\ mpc \notin {"match", "callback"}) ]_vars

\* C14: no failure raised by plugin logic inside create, destroy, invoke,
\* on_connect or on_disconnect leaves the extern fn: each call returns
\* normally to the host.
C14_FailureContained == boundary = "ok"

\* The ids of the sends that reached the instance's queue, in order.
Enqueued == SelectSeq([i \in 1..Len(sent) |-> i], LAMBDA i : ~sent[i].gone)

\* Delivery k is the one send_func call for the k-th Message enqueued: its
\* channel, its payload unchanged, and the plugin_ctx given to create.
DeliveredAsSent(k) ==
  /\ k <= Len(Enqueued)
  /\ delivered[k].id = Enqueued[k]
  /\ delivered[k].channel = sent[Enqueued[k]].channel
  /\ delivered[k].data = sent[Enqueued[k]].data
  /\ delivered[k].ctx \in PluginCtxs

\* C15: the consumer thread calls send_func once per Message enqueued, in
\* enqueue order, with the Message's channel and payload and the plugin_ctx of
\* create; whatever a payload holds, the Messages after it are still delivered
\* (the thread does not stop over a Message).
C15_DeliveredOncePerMessage ==
  /\ \A k \in 1..Len(delivered) : DeliveredAsSent(k)
  /\ cpc # "panicked"
  /\ cpc = "ended" => Len(delivered) = Len(Enqueued)

\* The host threads inside a callback of the plugin instance.
InsidePlugin == { t \in HostThreads : hpc[t] \in Callbacks }

\* C19: at no time are two of on_message / on_client_connect /
\* on_client_disconnect executing in the plugin instance of one handle.
C19_OneCallbackAtATime == Cardinality(InsidePlugin) <= 1

\* C20: the consumer thread ends only after destroy has run and every
\* RequestContext clone is dropped, and by then it has delivered every Message
\* that was queued, in order; while a clone is held it is still running.
C20_ConsumerOutlivesSenders ==
  cpc \in {"ended", "panicked"} =>
    /\ handle = "destroyed"
    /\ held = {}
    /\ queue = <<>>
    /\ [k \in 1..Len(delivered) |-> delivered[k].id] = Enqueued

====
